---- MODULE Spec2Model ----
(***************************************************************************)
(* Model of quantum_console/static/js/spatial_map.js: the SpatialMap scene *)
(* (scene.children and the objects it references), the WebSocket message   *)
(* handler that feeds updateEntities, and the animation-frame loop.        *)
(*                                                                         *)
(* Objects are kept in `heap` in allocation order; an object's index in    *)
(* the heap is its identity.  scene.children is a sequence of identities.  *)
(***************************************************************************)
EXTENDS Integers, Sequences, FiniteSets, TLC

(* ---------------- bounds of the model ---------------- *)
MaxObjects == 5      \* objects ever allocated (2 lights + meshes)
MaxLen == 2          \* longest entities array in a message

(* ---------------- program constants ---------------- *)
Green == 65280            \* 0x00ff00
Yellow == 16776960        \* 0xffff00
Red == 16711680           \* 0xff0000
Gray == 8421504           \* 0x808080
AmbientColor == 4210752   \* 0x404040
White == 16777215         \* 0xffffff

(* ---------------- input domains ---------------- *)
Ids == {"e1", "e2"}
Origin == <<0, 0, 0>>
NoCoordinates == <<>>                      \* entity.coordinates is undefined
Entity(id, coordinates, status) == [id |-> id, coordinates |-> coordinates, status |-> status]
\* the entities that messages are built from; the status "undefined" is the
\* property key that a missing status coerces to
Entities ==
    {Entity("e1", Origin, "active"), Entity("e1", <<1, 0, 0>>, "active"),
     Entity("e2", Origin, "undefined"), Entity("e2", <<1, 0, 0>>, "constructor"),
     Entity("e2", NoCoordinates, "idle")}

RECURSIVE SeqsUpTo(_, _)
SeqsUpTo(S, n) ==
    IF n = 0 THEN {<<>>}
    ELSE LET shorter == SeqsUpTo(S, n - 1)
         IN shorter \cup {Append(s, e) : s \in {t \in shorter : Len(t) = n - 1}, e \in S}

NoType == "<no type>"
NoEntities == [kind |-> "undefined", items |-> <<>>]   \* data.entities is undefined
NotASequence == [kind |-> "object", items |-> <<>>]    \* data.entities is a non-array value
ArrayOf(items) == [kind |-> "array", items |-> items]
SampleEntity == Entity("e2", Origin, "alert")

\* event.data, described by what JSON.parse makes of it
Payloads ==
    {[json |-> j, type |-> NoType, entities |-> NoEntities] : j \in {"invalid", "null", "scalar"}}
    \cup {[json |-> "object", type |-> NoType, entities |-> NoEntities],
          [json |-> "object", type |-> "other", entities |-> ArrayOf(<<SampleEntity>>)]}
    \cup {[json |-> "object", type |-> "entity_update", entities |-> e] :
             e \in {NoEntities, NotASequence} \cup {ArrayOf(s) : s \in SeqsUpTo(Entities, MaxLen)}}

NoMessage == [json |-> "none", type |-> NoType, entities |-> NoEntities]

VARIABLES
    children,       \* scene.children: sequence of object identities
    heap,           \* every object allocated so far, by identity
    lastSnapshot,   \* entities of the latest updateEntities call that ran to completion
    updateStatus,   \* outcome of the latest updateEntities call
    lastError,      \* error thrown out of the latest onmessage handler
    lastMsg,        \* payload of the latest message event
    prev,           \* children, lastSnapshot, updateStatus before the latest message event
    pendingFrames,  \* animation-frame callbacks requested and not yet run
    rendered,       \* scene.children as drawn by the latest renderer.render (NothingDrawn: it threw)
    socket,         \* state of the WebSocket
    connections     \* WebSocket objects constructed so far

vars == <<children, heap, lastSnapshot, updateStatus, lastError, lastMsg, prev,
          pendingFrames, rendered, socket, connections>>

(* ---------------- objects ---------------- *)
AmbientLight ==
    [type |-> "AmbientLight", position |-> Origin, color |-> AmbientColor,
     parent |-> "scene", disposed |-> FALSE, owner |-> ""]
DirectionalLight ==
    [type |-> "DirectionalLight", position |-> <<0, 1, 0>>, color |-> White,
     parent |-> "scene", disposed |-> FALSE, owner |-> ""]

(* ---------------- getEntityColor ---------------- *)
Num(n) == [t |-> "number", v |-> n]
JsUndefined == [t |-> "undefined", v |-> 0]
ObjectPrototypeMember == [t |-> "object", v |-> 0]   \* a function or object inherited from Object.prototype
ObjectPrototypeKeys ==
    {"constructor", "toString", "toLocaleString", "valueOf", "hasOwnProperty",
     "isPrototypeOf", "propertyIsEnumerable", "__proto__"}

\* colors[status]: own properties first, then the prototype chain
ColorsLookup(status) ==
    CASE status = "active" -> Num(Green)
      [] status = "idle" -> Num(Yellow)
      [] status = "alert" -> Num(Red)
      [] status \in ObjectPrototypeKeys -> ObjectPrototypeMember
      [] OTHER -> JsUndefined

Truthy(val) == val.t = "object" \/ (val.t = "number" /\ val.v # 0)

getEntityColor(status) ==
    IF Truthy(ColorsLookup(status)) THEN ColorsLookup(status) ELSE Num(Gray)

\* new MeshPhongMaterial({color: c}): a number sets the hex value, any other
\* non-string value leaves the material's default white
MaterialColor(c) == IF c.t = "number" THEN c.v ELSE White

(* ---------------- createEntityMesh ---------------- *)
\* result: the heap with the new mesh appended, and the error thrown, if any
\* (the mesh is constructed before entity.coordinates.x is evaluated)
createEntityMeshAtOrigin(hp, entity) ==
    LET mesh == [type |-> "Mesh", position |-> Origin,
                 color |-> MaterialColor(getEntityColor(entity.status)),
                 parent |-> "null", disposed |-> FALSE, owner |-> entity.id]
    IN IF entity.coordinates = NoCoordinates
       THEN [heap |-> Append(hp, mesh), error |-> "TypeError"]
       ELSE [heap |-> Append(hp, mesh), error |-> "none"]

createEntityMesh(hp, entity) ==
    LET mesh == [type |-> "Mesh", position |-> Origin,
                 color |-> MaterialColor(getEntityColor(entity.status)),
                 parent |-> "null", disposed |-> FALSE, owner |-> entity.id]
    IN IF entity.coordinates = NoCoordinates
       THEN [heap |-> Append(hp, mesh), error |-> "TypeError"]
       ELSE [heap |-> Append(hp, [mesh EXCEPT !.position = entity.coordinates]),
             error |-> "none"]

(* ---------------- scene.add ---------------- *)
sceneAddParentOnly(ch, hp, obj) ==
    [children |-> ch, heap |-> [hp EXCEPT ![obj].parent = "scene"]]

sceneAdd(ch, hp, obj) ==
    [children |-> Append(ch, obj), heap |-> [hp EXCEPT ![obj].parent = "scene"]]

(* ---------------- clearEntities ---------------- *)
clearEntitiesDropsAll(ch, hp) == SelectSeq(ch, LAMBDA c : FALSE)

clearEntitiesKeepsAll(ch, hp) == ch

clearEntitiesInverted(ch, hp) == SelectSeq(ch, LAMBDA c : hp[c].type = "Mesh")

clearEntities(ch, hp) == SelectSeq(ch, LAMBDA c : hp[c].type # "Mesh")

(* ---------------- updateEntities ---------------- *)
RECURSIVE forEachEntity(_, _, _, _)
forEachEntity(ch, hp, items, i) ==
    IF i > Len(items)
    THEN [children |-> ch, heap |-> hp, error |-> "none"]
    ELSE LET made == createEntityMesh(hp, items[i])
         IN IF made.error # "none"
            THEN [children |-> ch, heap |-> made.heap, error |-> made.error]
            ELSE LET added == sceneAdd(ch, made.heap, Len(made.heap))
                 IN forEachEntity(added.children, added.heap, items, i + 1)

updateEntitiesWithoutClear(ch, hp, entities) ==
    IF entities.kind # "array"
    THEN [children |-> ch, heap |-> hp, error |-> "TypeError"]
    ELSE forEachEntity(ch, hp, entities.items, 1)

updateEntitiesDeferringAdds(ch, hp, entities) ==
    IF entities.kind # "array"
    THEN [children |-> clearEntities(ch, hp), heap |-> hp, error |-> "TypeError"]
    ELSE [children |-> clearEntities(ch, hp), heap |-> hp, error |-> "none"]

updateEntities(ch, hp, entities) ==
    LET cleared == clearEntities(ch, hp)
    IN IF entities.kind # "array"
       THEN [children |-> cleared, heap |-> hp, error |-> "TypeError"]
       ELSE forEachEntity(cleared, hp, entities.items, 1)

(* ---------------- socket.onmessage ---------------- *)
\* TRUE when the handler reaches map.updateEntities(data.entities)
CallsUpdateForAnyType(m) == m.json = "object" /\ m.type # NoType

CallsUpdate(m) == m.json = "object" /\ m.type = "entity_update"

\* error raised before the type test: JSON.parse, or reading .type of null
ParseError(m) ==
    CASE m.json = "invalid" -> "SyntaxError"
      [] m.json = "null" -> "TypeError"
      [] OTHER -> "none"

OnMessage(m) ==
    /\ socket = "open"
    /\ Len(heap) + Len(m.entities.items) <= MaxObjects
    /\ lastMsg' = m
    /\ prev' = [children |-> children, lastSnapshot |-> lastSnapshot,
                updateStatus |-> updateStatus]
    /\ IF ParseError(m) = "none" /\ CallsUpdate(m)
       THEN LET r == updateEntities(children, heap, m.entities)
            IN /\ children' = r.children
               /\ heap' = r.heap
               /\ lastError' = r.error
               /\ updateStatus' = IF r.error = "none" THEN "completed" ELSE "failed"
               /\ lastSnapshot' = IF r.error = "none" THEN m.entities.items ELSE lastSnapshot
       ELSE /\ lastError' = ParseError(m)
            /\ UNCHANGED <<children, heap, updateStatus, lastSnapshot>>
    /\ UNCHANGED <<pendingFrames, rendered, socket, connections>>

Message == \E m \in Payloads : OnMessage(m)

(* ---------------- animate ---------------- *)
NothingDrawn == <<>>      \* controls.update or renderer.render threw

framesAfterTickScheduledLast(pending, drawFails) ==
    IF drawFails THEN pending - 1 ELSE (pending - 1) + 1

\* callbacks pending after a tick: the running callback is consumed, and
\* requestAnimationFrame is called before controls.update and renderer.render
framesAfterTick(pending, drawFails) == (pending - 1) + 1

Animate ==
    /\ pendingFrames > 0
    /\ \E drawFails \in BOOLEAN :
          /\ pendingFrames' = framesAfterTick(pendingFrames, drawFails)
          /\ rendered' = IF drawFails THEN NothingDrawn ELSE children
    /\ UNCHANGED <<children, heap, lastSnapshot, updateStatus, lastError, lastMsg, prev, socket,
                   connections>>

(* ---------------- WebSocket life cycle ---------------- *)
SocketOpen ==
    /\ socket = "connecting"
    /\ socket' = "open"
    /\ UNCHANGED <<children, heap, lastSnapshot, updateStatus, lastError, lastMsg, prev,
                   pendingFrames, rendered, connections>>

SocketCloseReconnects ==
    /\ socket \in {"connecting", "open"}
    /\ socket' = "connecting"
    /\ connections' = connections + 1
    /\ UNCHANGED <<children, heap, lastSnapshot, updateStatus, lastError, lastMsg, prev,
                   pendingFrames, rendered>>

\* the connection is lost; the socket has no onclose or onerror handler
SocketClose ==
    /\ socket \in {"connecting", "open"}
    /\ socket' = "closed"
    /\ UNCHANGED <<children, heap, lastSnapshot, updateStatus, lastError, lastMsg, prev,
                   pendingFrames, rendered, connections>>

(* ---------------- DOMContentLoaded: new SpatialMap, new WebSocket ---------------- *)
Init ==
    /\ heap = <<AmbientLight, DirectionalLight>>
    /\ children = <<1, 2>>
    /\ lastSnapshot = <<>>
    /\ updateStatus = "none"
    /\ lastError = "none"
    /\ lastMsg = NoMessage
    /\ prev = [children |-> <<1, 2>>, lastSnapshot |-> <<>>, updateStatus |-> "none"]
    /\ pendingFrames = 1
    /\ rendered = <<1, 2>>
    /\ socket = "connecting"
    /\ connections = 1

Next == Message \/ Animate \/ SocketOpen \/ SocketClose

Spec == Init /\ [][Next]_vars

(***************************************************************************)
(* Properties                                                              *)
(***************************************************************************)
Range(s) == {s[i] : i \in DOMAIN s}
\* the entity Scene Objects among the children ch, in scene order
MeshesIn(ch, hp) == SelectSeq(ch, LAMBDA c : hp[c].type = "Mesh")
OthersIn(ch, hp) == SelectSeq(ch, LAMBDA c : hp[c].type # "Mesh")
SceneMeshes == MeshesIn(children, heap)
PrevMeshes == MeshesIn(prev.children, heap)
OwnersOf(objs) == {heap[o].owner : o \in objs}
IdsOf(snapshot) == {snapshot[i].id : i \in DOMAIN snapshot}
UniqueIds(snapshot) == Cardinality(IdsOf(snapshot)) = Len(snapshot)
EntityOf(snapshot, id) == snapshot[CHOOSE i \in DOMAIN snapshot : snapshot[i].id = id]
ObjectOf(meshes, id) == meshes[CHOOSE i \in DOMAIN meshes : heap[meshes[i]].owner = id]
\* the latest message event was an updateEntities call that ran to completion
JustApplied == lastMsg.json = "object" /\ lastMsg.type = "entity_update" /\ lastError = "none"
\* ... and the scene it was applied to was that of a completely applied snapshot
AppliedAfterApplied == JustApplied /\ prev.updateStatus = "completed"

\* C1: after updateEntities has applied a snapshot with unique identifiers, the
\* identifiers owning an entity Scene Object in the scene are exactly the
\* identifiers of that snapshot, one Scene Object each.
C1_SceneIdsEqualSnapshotIds ==
    (updateStatus = "completed" /\ UniqueIds(lastSnapshot)) =>
        /\ OwnersOf(Range(SceneMeshes)) = IdsOf(lastSnapshot)
        /\ \A id \in Ids :
              Cardinality({i \in DOMAIN SceneMeshes : heap[SceneMeshes[i]].owner = id})
                  = IF id \in IdsOf(lastSnapshot) THEN 1 ELSE 0

C1_Witness ==
    /\ AppliedAfterApplied
    /\ UniqueIds(lastSnapshot) /\ UniqueIds(prev.lastSnapshot)
    /\ IdsOf(prev.lastSnapshot) \ IdsOf(lastSnapshot) # {}
    /\ IdsOf(lastSnapshot) \ IdsOf(prev.lastSnapshot) # {}

\* C2: replace, not merge: after a snapshot is applied the entity Scene Objects
\* are, in order, exactly one per entity of that snapshot, each at the entity's
\* coordinates and with the color of the entity's status, whatever was applied
\* before; the scene's entity objects are a function of the last snapshot alone.
C2_SceneReflectsLastSnapshot ==
    updateStatus = "completed" =>
        /\ Len(SceneMeshes) = Len(lastSnapshot)
        /\ \A i \in DOMAIN lastSnapshot :
              /\ heap[SceneMeshes[i]].position = lastSnapshot[i].coordinates
              /\ heap[SceneMeshes[i]].color = MaterialColor(getEntityColor(lastSnapshot[i].status))

C2_Witness ==
    /\ AppliedAfterApplied
    /\ Len(prev.lastSnapshot) > Len(lastSnapshot)
    /\ Len(lastSnapshot) > 0
    /\ lastSnapshot[1].coordinates # Origin
    /\ prev.lastSnapshot[1].coordinates = Origin

\* A step in which the handler applies snapshot B to a scene that holds the
\* completely applied snapshot A = B.
SameSnapshotStep ==
    /\ OnMessage(lastMsg')
    /\ lastMsg'.json = "object" /\ lastMsg'.type = "entity_update"
    /\ lastMsg'.entities.kind = "array"
    /\ updateStatus = "completed"
    /\ lastMsg'.entities.items = lastSnapshot

ChangedIds ==
    {id \in IdsOf(lastSnapshot) \cap IdsOf(prev.lastSnapshot) :
        EntityOf(lastSnapshot, id) # EntityOf(prev.lastSnapshot, id)}
TwoSnapshots == AppliedAfterApplied /\ UniqueIds(lastSnapshot) /\ UniqueIds(prev.lastSnapshot)

C5_RemovedObjectsDestroyed ==
    updateStatus = "completed" =>
        \A o \in DOMAIN heap :
            (heap[o].type = "Mesh" /\ heap[o].parent = "scene" /\ o \notin Range(children))
                => heap[o].disposed

\* the diff relative to the previous state, read off the scene operations
Added == OwnersOf(Range(SceneMeshes) \ Range(prev.children))
Removed == OwnersOf(Range(PrevMeshes) \ Range(children))
Changed ==
    {id \in OwnersOf(Range(SceneMeshes) \cap Range(prev.children)) :
        \E o \in Range(SceneMeshes) \cap Range(prev.children) :
            /\ heap[o].owner = id
            /\ \/ heap[o].position # EntityOf(prev.lastSnapshot, id).coordinates
               \/ heap[o].color # MaterialColor(getEntityColor(EntityOf(prev.lastSnapshot, id).status))}

ClaimedColor(status) ==
    CASE status = "active" -> Green
      [] status = "idle" -> Yellow
      [] status = "alert" -> Red
      [] OTHER -> Gray

\* C7 (as claimed): every entity Scene Object has the color of its status:
\* green, yellow, red, and gray for every other or missing status; no status
\* value makes the update fail.
C7_ColorByStatus ==
    JustApplied =>
        \A i \in DOMAIN lastSnapshot :
            heap[SceneMeshes[i]].color = ClaimedColor(lastSnapshot[i].status)

\* payload that fails to parse, or parses to a value with no type field
Malformed(m) == m.json \in {"invalid", "null", "scalar"} \/ (m.json = "object" /\ m.type = NoType)

\* C8 (as claimed): a malformed message is dropped silently: no error leaves
\* the handler and the entity state and the scene are as before.
C8_MalformedDroppedSilently ==
    Malformed(lastMsg) =>
        /\ lastError = "none"
        /\ children = prev.children
        /\ lastSnapshot = prev.lastSnapshot

\* entity_update whose entities are missing, not a sequence, or lack coordinates
InvalidUpdate(m) ==
    /\ m.json = "object" /\ m.type = "entity_update"
    /\ \/ m.entities.kind # "array"
       \/ \E i \in DOMAIN m.entities.items : m.entities.items[i].coordinates = NoCoordinates

\* C9 (as claimed): an entity_update message of invalid structure changes
\* neither the entity state nor the scene and propagates no error.
C9_InvalidUpdateChangesNothing ==
    InvalidUpdate(lastMsg) =>
        /\ lastError = "none"
        /\ children = prev.children
        /\ lastSnapshot = prev.lastSnapshot

\* C10: handling a well-formed message whose type is not entity_update leaves
\* every child of the scene, entity Scene Objects and lights, unchanged,
\* whatever else the message carries, and raises no error.
C10_OtherTypeIgnored ==
    [][(OnMessage(lastMsg') /\ lastMsg'.json = "object" /\ lastMsg'.type = "other") =>
         (children' = children /\ heap' = heap /\ lastError' = "none")]_vars

C10_Witness ==
    /\ lastMsg.json = "object" /\ lastMsg.type = "other"
    /\ lastMsg.entities.kind = "array" /\ Len(lastMsg.entities.items) > 0
    /\ Len(SceneMeshes) > 0
    /\ children = prev.children
    /\ OwnersOf(Range(SceneMeshes)) # IdsOf(lastMsg.entities.items)

\* the latest updateEntities call threw after clearEntities: some of the new
\* objects are attached, or the objects it cleared are gone and none is attached
TornScene ==
    /\ updateStatus = "failed"
    /\ \/ Len(SceneMeshes) > 0
       \/ (InvalidUpdate(lastMsg) /\ Len(PrevMeshes) > 0)

\* C11 (as claimed): every render tick draws the scene of a completely applied
\* snapshot or the initial scene, also after an update that fails part-way: no
\* tick draws a scene whose previous objects are cleared while only some or
\* none of the new snapshot's objects are attached.
C11_TickNeverDrawsTornScene ==
    [][(rendered' # rendered /\ rendered' = children) => ~TornScene]_vars

\* an entity_update message whose entities are a sequence of entities with coordinates
WellFormedSnapshot(m) ==
    /\ m.json = "object" /\ m.type = "entity_update" /\ m.entities.kind = "array"
    /\ \A i \in DOMAIN m.entities.items : m.entities.items[i].coordinates # NoCoordinates

\* C12: snapshots take effect in arrival order and their reconciliation passes
\* never overlap: when the handler of snapshot N has returned, and so before
\* any later message is handled, the pass of N is complete: the snapshot in
\* effect is N, every entity of N has its object attached, in order, and no
\* object of the scene that N was applied to is left.
C12_SnapshotCompleteBeforeNext ==
    WellFormedSnapshot(lastMsg) =>
        /\ updateStatus = "completed" /\ lastError = "none"
        /\ lastSnapshot = lastMsg.entities.items
        /\ Len(SceneMeshes) = Len(lastMsg.entities.items)
        /\ \A i \in DOMAIN SceneMeshes :
              /\ heap[SceneMeshes[i]].owner = lastMsg.entities.items[i].id
              /\ heap[SceneMeshes[i]].position = lastMsg.entities.items[i].coordinates
              /\ heap[SceneMeshes[i]].parent = "scene"
        /\ Range(SceneMeshes) \cap Range(prev.children) = {}

C12_Witness ==
    /\ WellFormedSnapshot(lastMsg)
    /\ Len(lastMsg.entities.items) > 0
    /\ prev.updateStatus = "completed"
    /\ Len(PrevMeshes) > 1
    /\ prev.lastSnapshot # lastSnapshot

\* C13 (as claimed): between events the registered identifiers (those of the
\* entity state, the snapshot last applied) and the entity renderables attached
\* to the scene correspond one to one, and a mesh records the scene as its
\* parent exactly when it is among the scene's children.
C13_RegistryMatchesAttachedRenderables ==
    /\ \A o \in DOMAIN heap :
          heap[o].type = "Mesh" => (heap[o].parent = "scene" <=> o \in Range(children))
    /\ UniqueIds(lastSnapshot) =>
          /\ OwnersOf(Range(SceneMeshes)) = IdsOf(lastSnapshot)
          /\ Len(SceneMeshes) = Len(lastSnapshot)

\* C14: one connection is opened, at startup, and never another; once it is
\* lost it stays lost, no message is handled and no snapshot applied, the scene
\* keeps the objects it holds, and an animation frame stays pending.
C14_NoReconnectAfterLoss ==
    [][/\ connections = 1 /\ connections' = 1
       /\ socket = "closed" =>
             /\ socket' = "closed"
             /\ children' = children /\ heap' = heap
             /\ lastSnapshot' = lastSnapshot /\ lastMsg' = lastMsg
             /\ pendingFrames' > 0]_vars

C14_Witness ==
    /\ socket = "closed"
    /\ connections = 1
    /\ updateStatus = "completed"
    /\ Len(SceneMeshes) > 0
    /\ rendered = children
    /\ pendingFrames = 1

\* C15: synchronization never touches the non-entity children: the ambient and
\* the directional light added by init are children of the scene, each exactly
\* once, in their original order, and are themselves unchanged.
C15_LightsUntouched ==
    /\ OthersIn(children, heap) = <<1, 2>>
    /\ heap[1] = AmbientLight
    /\ heap[2] = DirectionalLight

C15_Witness ==
    /\ lastMsg.json = "object" /\ lastMsg.type = "entity_update"
    /\ Len(PrevMeshes) > 0
    /\ Range(PrevMeshes) \cap Range(children) = {}
    /\ OthersIn(children, heap) = <<1, 2>>

\* C16: the render loop neither stops nor multiplies: between events exactly
\* one animation-frame callback is pending, also after a tick whose draw failed
\* and whatever messages have been handled.
C16_OneFramePending == pendingFrames = 1

C16_Witness ==
    /\ rendered = NothingDrawn
    /\ pendingFrames = 1
    /\ lastMsg # NoMessage
    /\ Len(SceneMeshes) > 0

====
